---- MODULE Spec2Model ----
(***************************************************************************)
(* Model of the in-memory channel worker of swordkee/queue                 *)
(* (simple/simple.go): the mailbox s.taskQueue, the stop signal s.stop,    *)
(* the one-shot s.stopOnce, the producers calling Queue, the callers of    *)
(* Shutdown, the Run loop and the guard handle with its task goroutine.    *)
(* The constructors NewMessage and NewTask of job/job.go are modelled as    *)
(* operators on records and exercised by a specification of their own.     *)
(*                                                                         *)
(* Go channel semantics used: a buffered channel is a FIFO of at most      *)
(* cap elements; an unbuffered channel (cap 0) passes a value only to a    *)
(* receiver that is blocked in the receive; a send on a closed channel     *)
(* panics; close of a closed channel panics; a receive from a closed       *)
(* channel drains the buffer first; select picks any one ready case.       *)
(***************************************************************************)
EXTENDS Integers, Sequences, FiniteSets, TLC

\* ---------------------------------------------------------------- bounds
\* Queue calls made in one behaviour.
MaxJobs == 3
\* Largest WithQueueNum(num) tried; Init draws num from 0..MaxCapacity, or
\* no option.
MaxCapacity == 2

Producers == {"p1", "p2"}
Stoppers  == {"s1", "s2"}
NoJob     == 0

\* defaultQueueSize of simple.go.
defaultQueueSize == 4096
\* NewWorker called without the WithQueueNum option.
NoQueueNum == -1

VARIABLES
    queueNum,       \* num of the WithQueueNum(num) option given to
                    \* NewWorker, or NoQueueNum
    capacity,       \* cap(s.taskQueue)
    taskQueue,      \* buffer of s.taskQueue: sequence of envelopes
    tqClosed,       \* s.taskQueue has been closed
    stop,           \* s.stop has been closed
    stopCloses,     \* number of close(s.stop) executed
    tqCloses,       \* number of close(s.taskQueue) executed
    onceDone,       \* s.stopOnce: done flag
    onceM,          \* s.stopOnce: holder of the mutex, or "none"
    spc,            \* position of each Shutdown caller
    qpc,            \* position of each producer inside Queue
    qret,           \* the Queue call that ended last: its result, and
                    \* whether it began after a Shutdown call had returned
    lateCall,       \* producers inside a Queue call that began after some
                    \* Shutdown call had returned
    calls,          \* number of Queue calls made so far
    accepted,       \* number of envelopes whose send succeeded; the k-th
                    \* accepted envelope is named k
    wpc,            \* position of the Run loop / handle
    runResult,      \* how Run ended
    cur,            \* envelope being handled (task of the range loop)
    done,           \* handle's done channel (buffer of size 1)
    panicChan,      \* handle's panicChan holds a recovered fault
    ctxErr,         \* ctx.Err() of handle's context
    unit,           \* the task goroutine of the current handle
    timeoutLogged,  \* "job timeout" was logged during the current handle
    errorLogged,    \* Run logged an error for the envelope handled last
    started,        \* envelopes in the order handle launched their task
    midAtStop,      \* the envelope that was mid-execution when close(s.stop)
                    \* ran (NoJob when there was none)
    message,        \* the Message built last by a constructor of job.go
    built           \* the constructor called last and its arguments

vars == << queueNum, capacity, taskQueue, tqClosed, stop, stopCloses, tqCloses,
           onceDone, onceM, spc, qpc, qret, lateCall, calls, accepted, wpc, runResult,
           cur, done, panicChan, ctxErr, unit, timeoutLogged, errorLogged,
           started, midAtStop, message, built >>

chanVars   == << queueNum, capacity, taskQueue, tqClosed, stop, stopCloses, tqCloses >>
onceVars   == << onceDone, onceM, spc >>
queueVars  == << qpc, qret, lateCall, calls, accepted >>
workerVars == << wpc, runResult, cur, started >>
guardVars  == << done, panicChan, ctxErr, unit, timeoutLogged, errorLogged >>
histVars   == << midAtStop >>
jobVars    == << message, built >>

\* ------------------------------------------------------------- job.go
\* Values of the bounded inputs of the constructors of job.go.
NoTask    == "nil"
Tasks     == {NoTask, "task1", "task2"}
NoBytes   == << >>
Payloads  == {NoBytes, << 1 >>, << 1, 2 >>}
Durations == {0, 1, 2}
Counts    == {0, 1}

\* The options NewOptions(opts...) resolves for a constructor call.
Options == [timeout : Durations, retryCount : Counts, retryDelay : Durations]

\* Message{}: the zero value of the struct.
ZeroMessage ==
    [Task |-> NoTask, Timeout |-> 0, Payload |-> NoBytes,
     RetryCount |-> 0, RetryDelay |-> 0, Data |-> NoBytes]

\* m.Bytes() of a core.QueuedMessage.
Bytes(m) == m.body

\* Mutant of NewMessage: Timeout and RetryDelay are exchanged.
NewMessage_SwappedDurations(m, o) ==
    [ZeroMessage EXCEPT !.RetryCount = o.retryCount,
                        !.RetryDelay = o.timeout,
                        !.Timeout = o.retryDelay,
                        !.Payload = Bytes(m)]

\* NewMessage(m, opts...) with o := NewOptions(opts...).
NewMessage(m, o) ==
    [ZeroMessage EXCEPT !.RetryCount = o.retryCount,
                        !.RetryDelay = o.retryDelay,
                        !.Timeout = o.timeout,
                        !.Payload = Bytes(m)]

\* NewTask(task, opts...) with o := NewOptions(opts...).
NewTask(task, o) ==
    [ZeroMessage EXCEPT !.Timeout = o.timeout,
                        !.RetryCount = o.retryCount,
                        !.RetryDelay = o.retryDelay,
                        !.Task = task]

Range(s) == { s[i] : i \in 1..Len(s) }

\* ------------------------------------------------------------------ Init
\* Mutant of NewCapacity: the WithQueueNum option is ignored.
NewCapacity_IgnoreOption(num) == defaultQueueSize

\* Capacity of the channel NewWorker ends with: made with defaultQueueSize,
\* and made again with num by the option WithQueueNum(num).
NewCapacity(num) == IF num = NoQueueNum THEN defaultQueueSize ELSE num

\* NewWorker() or NewWorker(WithQueueNum(num)): open, empty channels,
\* fresh Once.
Init ==
    /\ queueNum \in {NoQueueNum} \cup (0..MaxCapacity)
    /\ capacity = NewCapacity(queueNum)
    /\ taskQueue = << >>
    /\ tqClosed = FALSE
    /\ stop = FALSE
    /\ stopCloses = 0
    /\ tqCloses = 0
    /\ onceDone = FALSE
    /\ onceM = "none"
    /\ spc = [s \in Stoppers |-> "idle"]
    /\ qpc = [p \in Producers |-> "idle"]
    /\ qret = [val |-> "none", late |-> FALSE]
    /\ lateCall = {}
    /\ calls = 0
    /\ accepted = 0
    /\ wpc = "idle"
    /\ runResult = "none"
    /\ cur = NoJob
    /\ done = "empty"
    /\ panicChan = FALSE
    /\ ctxErr = "none"
    /\ unit = "none"
    /\ timeoutLogged = FALSE
    /\ errorLogged = FALSE
    /\ started = << >>
    /\ midAtStop = NoJob
    /\ message = ZeroMessage
    /\ built = [by |-> "none"]

\* ------------------------------------------------------------ observers
Capacity == capacity
Usage    == Len(taskQueue)

\* --------------------------------------------------------------- Queue
\* Queue called by p ends with result v (a returned error value, or the
\* panic that leaves it).
Returned(p, v) == [val |-> v, late |-> p \in lateCall]

\* A producer enters Queue.  Idle producers are interchangeable: the call
\* is made by p1 unless p1 is inside a call of its own.
QueueCall(p) ==
    /\ qpc[p] = "idle"
    /\ p = "p2" => qpc["p1"] # "idle"
    /\ calls < MaxJobs
    /\ calls' = calls + 1
    /\ qpc' = [qpc EXCEPT ![p] = "check"]
    /\ lateCall' = IF \E s \in Stoppers : spc[s] = "returned"
                     THEN lateCall \cup {p} ELSE lateCall
    /\ UNCHANGED << qret, accepted >>
    /\ UNCHANGED << chanVars, onceVars, workerVars, guardVars, histVars >>
    /\ UNCHANGED jobVars

\* Mutant of QueueCheck: the stop signal is not consulted.
QueueCheck_NoStopCheck(p) ==
    /\ qpc[p] = "check"
    /\ qpc' = [qpc EXCEPT ![p] = "send"]
    /\ UNCHANGED << qret, lateCall, calls, accepted >>
    /\ UNCHANGED << chanVars, onceVars, workerVars, guardVars, histVars >>
    /\ UNCHANGED jobVars

\* First select of Queue: case <-s.stop: return ErrQueueShutdown; default.
QueueCheck(p) ==
    /\ qpc[p] = "check"
    /\ IF stop
         THEN /\ qret' = Returned(p, "ErrQueueShutdown")
              /\ qpc' = [qpc EXCEPT ![p] = "idle"]
              /\ lateCall' = lateCall \ {p}
         ELSE /\ qpc' = [qpc EXCEPT ![p] = "send"]
              /\ UNCHANGED << qret, lateCall >>
    /\ UNCHANGED << calls, accepted >>
    /\ UNCHANGED << chanVars, onceVars, workerVars, guardVars, histVars >>
    /\ UNCHANGED jobVars

\* Mutant of SendHasRoom: one envelope more than the capacity fits.
SendHasRoom_OffByOne == Len(taskQueue) <= capacity

\* The channel buffer has a free slot.
SendHasRoom == Len(taskQueue) < capacity

\* The Run loop is at the receive of its range with nothing to take: it is
\* blocked there, or about to block.
ReceiverWaiting == wpc = "range" /\ taskQueue = << >>

\* Mutant of SendBuffered: the envelope is put in front of the buffer.
SendBuffered_AtHead(p) ==
    /\ taskQueue' = << accepted + 1 >> \o taskQueue
    /\ accepted' = accepted + 1
    /\ qret' = Returned(p, "nil")
    /\ qpc' = [qpc EXCEPT ![p] = "idle"]
    /\ UNCHANGED << wpc, cur >>

\* The send case returns nil and the envelope is in the buffer.
SendBuffered(p) ==
    /\ taskQueue' = Append(taskQueue, accepted + 1)
    /\ accepted' = accepted + 1
    /\ qret' = Returned(p, "nil")
    /\ qpc' = [qpc EXCEPT ![p] = "idle"]
    /\ UNCHANGED << wpc, cur >>

\* Unbuffered channel: the send case passes the envelope to the Run loop
\* blocked in its receive and returns nil.
SendDirect(p) ==
    /\ cur' = accepted + 1
    /\ wpc' = "handle"
    /\ accepted' = accepted + 1
    /\ qret' = Returned(p, "nil")
    /\ qpc' = [qpc EXCEPT ![p] = "idle"]
    /\ UNCHANGED taskQueue

\* Mutant of SendDefault: the refused call evicts the oldest envelope.
SendDefault_Evicts(p) ==
    /\ qret' = Returned(p, "errMaxCapacity")
    /\ qpc' = [qpc EXCEPT ![p] = "idle"]
    /\ taskQueue' = IF taskQueue = << >> THEN taskQueue ELSE Tail(taskQueue)
    /\ UNCHANGED << accepted, wpc, cur >>

\* default: return errMaxCapacity.
SendDefault(p) ==
    /\ qret' = Returned(p, "errMaxCapacity")
    /\ qpc' = [qpc EXCEPT ![p] = "idle"]
    /\ UNCHANGED << taskQueue, accepted, wpc, cur >>

\* The send case on a closed channel panics out of Queue.
SendPanic(p) ==
    /\ qret' = Returned(p, "panic")
    /\ qpc' = [qpc EXCEPT ![p] = "panicked"]
    /\ UNCHANGED << taskQueue, accepted, wpc, cur >>

\* Second select of Queue: case s.taskQueue <- job: return nil;
\* default: return errMaxCapacity.  With an unbuffered channel the send
\* case is ready only if the receiver is already blocked, which a loop
\* that has reached its receive may or may not yet be.
QueueSend(p) ==
    /\ qpc[p] = "send"
    /\ IF tqClosed THEN SendPanic(p)
       ELSE IF SendHasRoom THEN SendBuffered(p)
       ELSE IF capacity = 0 /\ ReceiverWaiting
              THEN SendDirect(p) \/ SendDefault(p)
       ELSE SendDefault(p)
    /\ lateCall' = lateCall \ {p}
    /\ UNCHANGED calls
    /\ UNCHANGED << queueNum, capacity, tqClosed, stop, stopCloses, tqCloses >>
    /\ UNCHANGED << onceVars, runResult, started, guardVars, histVars >>
    /\ UNCHANGED jobVars

\* ------------------------------------------------------------- Shutdown
\* Mutant of OnceMustRun: every caller runs the function.
OnceMustRun_Always == TRUE

\* Whether Once still has to run its function.
OnceMustRun == ~onceDone

\* A caller enters Shutdown: s.stopOnce.Do(...).  Fast path of Once.Do:
\* done is set, Shutdown returns nil; otherwise go for the mutex.  The
\* callers are named in the order of their calls: s1 enters first.
ShutdownCall(s) ==
    /\ spc[s] = "idle"
    /\ s = "s2" => spc["s1"] # "idle"
    /\ spc' = [spc EXCEPT ![s] = IF OnceMustRun THEN "lock" ELSE "returned"]
    /\ UNCHANGED << onceDone, onceM >>
    /\ UNCHANGED << chanVars, queueVars, workerVars, guardVars, histVars >>
    /\ UNCHANGED jobVars

\* Once.doSlow: lock the mutex and test done again; when it is set, unlock
\* and return nil.
OnceLock(s) ==
    /\ spc[s] = "lock"
    /\ onceM = "none"
    /\ IF OnceMustRun
         THEN onceM' = s /\ spc' = [spc EXCEPT ![s] = "closeStop"]
         ELSE onceM' = "none" /\ spc' = [spc EXCEPT ![s] = "returned"]
    /\ UNCHANGED onceDone
    /\ UNCHANGED << chanVars, queueVars, workerVars, guardVars, histVars >>
    /\ UNCHANGED jobVars

\* close(s.stop); closing a closed channel panics (the deferred Store and
\* Unlock of doSlow still run).
CloseStop(s) ==
    /\ spc[s] = "closeStop"
    /\ IF stop
         THEN /\ spc' = [spc EXCEPT ![s] = "panicked"]
              /\ onceDone' = TRUE
              /\ onceM' = "none"
              /\ UNCHANGED << stop, stopCloses, midAtStop >>
         ELSE /\ stop' = TRUE
              /\ stopCloses' = stopCloses + 1
              /\ midAtStop' = IF wpc \in {"select", "waitDone"}
                                THEN cur ELSE NoJob
              /\ spc' = [spc EXCEPT ![s] = "closeTaskQueue"]
              /\ UNCHANGED << onceDone, onceM >>
    /\ UNCHANGED << queueNum, capacity, taskQueue, tqClosed, tqCloses >>
    /\ UNCHANGED << queueVars, workerVars, guardVars >>
    /\ UNCHANGED jobVars

\* close(s.taskQueue), then the end of doSlow (done.Store(1), Unlock) and
\* Shutdown returns nil.  Closing a closed channel panics.
CloseTaskQueue(s) ==
    /\ spc[s] = "closeTaskQueue"
    /\ IF tqClosed
         THEN /\ spc' = [spc EXCEPT ![s] = "panicked"]
              /\ UNCHANGED << tqClosed, tqCloses >>
         ELSE /\ tqClosed' = TRUE
              /\ tqCloses' = tqCloses + 1
              /\ spc' = [spc EXCEPT ![s] = "returned"]
    /\ onceDone' = TRUE
    /\ onceM' = "none"
    /\ UNCHANGED << queueNum, capacity, taskQueue, stop, stopCloses, midAtStop >>
    /\ UNCHANGED << queueVars, workerVars, guardVars >>
    /\ UNCHANGED jobVars

\* ------------------------------------------------------------------ Run
\* Mutant of RunCheck: Run enters its loop without consulting the stop
\* signal.
RunCheck_NoStopCheck ==
    /\ wpc = "idle"
    /\ wpc' = "range"
    /\ UNCHANGED << runResult, cur, started >>
    /\ UNCHANGED << chanVars, onceVars, queueVars, guardVars, histVars >>
    /\ UNCHANGED jobVars

\* Run is called: select { case <-s.stop: return ErrQueueShutdown; default }.
RunCheck ==
    /\ wpc = "idle"
    /\ IF stop
         THEN wpc' = "returned" /\ runResult' = "ErrQueueShutdown"
         ELSE wpc' = "range" /\ UNCHANGED runResult
    /\ UNCHANGED << cur, started >>
    /\ UNCHANGED << chanVars, onceVars, queueVars, guardVars, histVars >>
    /\ UNCHANGED jobVars

\* Mutant of Dequeued: the range receives the newest buffered envelope.
Dequeued_Newest(q) == q[Len(q)]

\* The envelope the range receives next.
Dequeued(q) == Head(q)

\* Mutant of RunRecv: the envelope received stays in the buffer.
RunRecv_NoRemove ==
    /\ wpc = "range"
    /\ taskQueue # << >>
    /\ cur' = Dequeued(taskQueue)
    /\ wpc' = "handle"
    /\ UNCHANGED << runResult, started >>
    /\ UNCHANGED << chanVars, onceVars, queueVars, guardVars, histVars >>
    /\ UNCHANGED jobVars

\* for task := range s.taskQueue: an envelope is buffered, take the oldest.
RunRecv ==
    /\ wpc = "range"
    /\ taskQueue # << >>
    /\ cur' = Dequeued(taskQueue)
    /\ taskQueue' = Tail(taskQueue)
    /\ wpc' = "handle"
    /\ UNCHANGED << runResult, started >>
    /\ UNCHANGED << queueNum, capacity, tqClosed, stop, stopCloses, tqCloses >>
    /\ UNCHANGED << onceVars, queueVars, guardVars, histVars >>
    /\ UNCHANGED jobVars

\* Mutant of RunExit: the range ends as soon as the channel is closed,
\* whatever is still buffered.
RunExit_WithoutDrain ==
    /\ wpc = "range"
    /\ tqClosed
    /\ wpc' = "returned"
    /\ runResult' = "nil"
    /\ UNCHANGED << cur, started >>
    /\ UNCHANGED << chanVars, onceVars, queueVars, guardVars, histVars >>
    /\ UNCHANGED jobVars

\* Mutant of RunExit: the range ends as soon as the buffer is empty, the
\* channel closed or not.
RunExit_OnEmpty ==
    /\ wpc = "range"
    /\ taskQueue = << >>
    /\ wpc' = "returned"
    /\ runResult' = "nil"
    /\ UNCHANGED << cur, started >>
    /\ UNCHANGED << chanVars, onceVars, queueVars, guardVars, histVars >>
    /\ UNCHANGED jobVars

\* The channel is closed and drained: the range ends, Run returns nil.
RunExit ==
    /\ wpc = "range"
    /\ taskQueue = << >>
    /\ tqClosed
    /\ wpc' = "returned"
    /\ runResult' = "nil"
    /\ UNCHANGED << cur, started >>
    /\ UNCHANGED << chanVars, onceVars, queueVars, guardVars, histVars >>
    /\ UNCHANGED jobVars

\* --------------------------------------------------------------- handle
\* handle(m): fresh done and panicChan, context with the job's timeout,
\* and the task goroutine is launched.
HandleStart ==
    /\ wpc = "handle"
    /\ done' = "empty"
    /\ panicChan' = FALSE
    /\ ctxErr' = "none"
    /\ unit' = "running"
    /\ started' = Append(started, cur)
    /\ wpc' = "select"
    /\ timeoutLogged' = FALSE
    /\ UNCHANGED << runResult, cur, errorLogged >>
    /\ UNCHANGED << chanVars, onceVars, queueVars, histVars >>
    /\ UNCHANGED jobVars

\* Buffer size of the channels handle makes: make(chan error, 1) and
\* make(chan interface{}, 1).
GuardChanSize == 1

\* The send on done does not block: its buffer has a free slot.
DoneHasRoom == (IF done = "empty" THEN 0 ELSE 1) < GuardChanSize

\* Mutant of PanicChanHasRoom: panicChan is unbuffered, the send completes
\* only while handle is at the select that receives from it.
PanicChanHasRoom_Unbuffered == wpc = "select"

\* The send on panicChan does not block: its buffer has a free slot.
PanicChanHasRoom == (IF panicChan THEN 1 ELSE 0) < GuardChanSize

\* The task goroutine: done <- s.runFunc(ctx, job), result nil or an error.
TaskReturn(e) ==
    /\ unit = "running"
    /\ DoneHasRoom
    /\ done' = e
    /\ unit' = "returned"
    /\ UNCHANGED << panicChan, ctxErr, timeoutLogged, errorLogged >>
    /\ UNCHANGED << chanVars, onceVars, queueVars, workerVars, histVars >>
    /\ UNCHANGED jobVars

\* The task goroutine: runFunc panics, recover() sends p on panicChan.
TaskPanic ==
    /\ unit = "running"
    /\ PanicChanHasRoom
    /\ panicChan' = TRUE
    /\ unit' = "panicked"
    /\ UNCHANGED << done, ctxErr, timeoutLogged, errorLogged >>
    /\ UNCHANGED << chanVars, onceVars, queueVars, workerVars, histVars >>
    /\ UNCHANGED jobVars

\* The timer of context.WithTimeout fires before the context was cancelled.
DeadlineExpire ==
    /\ wpc = "select"
    /\ ctxErr = "none"
    /\ ctxErr' = "DeadlineExceeded"
    /\ UNCHANGED << done, panicChan, unit, timeoutLogged, errorLogged >>
    /\ UNCHANGED << chanVars, onceVars, queueVars, workerVars, histVars >>
    /\ UNCHANGED jobVars

\* Mutant of Cancelled: cancel() has no effect on the context.
Cancelled_Never(e) == e

\* cancel(): the context becomes Canceled unless it is already done.
Cancelled(e) == IF e = "none" THEN "Canceled" ELSE e

\* Run logs the value handle returned when it is not nil.
LoggedError(err) == err # "nil"

\* Mutant of HandleReturn: a returned error ends Run.
HandleReturn_StopOnError(err) ==
    /\ done' = "empty"
    /\ ctxErr' = "none"
    /\ errorLogged' = LoggedError(err)
    /\ unit' = "none"
    /\ cur' = NoJob
    /\ wpc' = IF err # "nil" THEN "returned" ELSE "range"
    /\ runResult' = IF err # "nil" THEN "err" ELSE runResult
    /\ timeoutLogged' = FALSE
    /\ UNCHANGED << started, panicChan >>
    /\ UNCHANGED << chanVars, onceVars, queueVars, histVars >>
    /\ UNCHANGED jobVars

\* handle returns err to Run (its context is released by the deferred
\* cancel); Run logs a non-nil error and goes on with the range.
HandleReturn(err) ==
    /\ done' = "empty"
    /\ ctxErr' = "none"
    /\ errorLogged' = LoggedError(err)
    /\ unit' = "none"
    /\ cur' = NoJob
    /\ wpc' = "range"
    /\ timeoutLogged' = FALSE
    /\ UNCHANGED << runResult, started, panicChan >>
    /\ UNCHANGED << chanVars, onceVars, queueVars, histVars >>
    /\ UNCHANGED jobVars

\* select, case p := <-panicChan: panic(p), out of handle and out of Run.
SelectPanic ==
    /\ wpc = "select"
    /\ panicChan
    /\ panicChan' = FALSE
    /\ ctxErr' = Cancelled(ctxErr)
    /\ wpc' = "panicked"
    /\ runResult' = "panic"
    /\ UNCHANGED << cur, started, done, unit, timeoutLogged, errorLogged >>
    /\ UNCHANGED << chanVars, onceVars, queueVars, histVars >>
    /\ UNCHANGED jobVars

\* Mutant of SelectCtxDone: after the timeout notice handle returns at
\* once and leaves the task goroutine behind.
SelectCtxDone_NoWait ==
    /\ wpc = "select"
    /\ ctxErr # "none"
    /\ timeoutLogged' = (ctxErr = "DeadlineExceeded")
    /\ wpc' = "range"
    /\ cur' = NoJob
    /\ UNCHANGED << runResult, started >>
    /\ UNCHANGED << done, panicChan, ctxErr, unit, errorLogged >>
    /\ UNCHANGED << chanVars, onceVars, queueVars, histVars >>
    /\ UNCHANGED jobVars

\* select, case <-ctx.Done(): log the timeout, then return <-done.
SelectCtxDone ==
    /\ wpc = "select"
    /\ ctxErr # "none"
    /\ timeoutLogged' = (ctxErr = "DeadlineExceeded")
    /\ wpc' = "waitDone"
    /\ UNCHANGED << runResult, cur, started >>
    /\ UNCHANGED << done, panicChan, ctxErr, unit, errorLogged >>
    /\ UNCHANGED << chanVars, onceVars, queueVars, histVars >>
    /\ UNCHANGED jobVars

\* Mutant of SelectStop: after cancel() handle returns at once and leaves
\* the task goroutine behind.
SelectStop_NoWait ==
    /\ wpc = "select"
    /\ stop
    /\ ctxErr' = Cancelled(ctxErr)
    /\ wpc' = "range"
    /\ cur' = NoJob
    /\ UNCHANGED << runResult, started >>
    /\ UNCHANGED << done, panicChan, unit, timeoutLogged, errorLogged >>
    /\ UNCHANGED << chanVars, onceVars, queueVars, histVars >>
    /\ UNCHANGED jobVars

\* select, case <-s.stop: cancel(), then return <-done.
SelectStop ==
    /\ wpc = "select"
    /\ stop
    /\ ctxErr' = Cancelled(ctxErr)
    /\ wpc' = "waitDone"
    /\ UNCHANGED << runResult, cur, started >>
    /\ UNCHANGED << done, panicChan, unit, timeoutLogged, errorLogged >>
    /\ UNCHANGED << chanVars, onceVars, queueVars, histVars >>
    /\ UNCHANGED jobVars

\* select, case err := <-done: return err.
SelectDone ==
    /\ wpc = "select"
    /\ done # "empty"
    /\ HandleReturn(done)

\* Mutant of WaitDone: handle returns from its wait without the result of
\* the task goroutine, which is left behind.
WaitDone_NoWait ==
    /\ wpc = "waitDone"
    /\ wpc' = "range"
    /\ cur' = NoJob
    /\ UNCHANGED << runResult, started >>
    /\ UNCHANGED << chanVars, onceVars, queueVars, guardVars, histVars >>
    /\ UNCHANGED jobVars

\* return <-done of the deadline and shutdown branches.
WaitDone ==
    /\ wpc = "waitDone"
    /\ done # "empty"
    /\ HandleReturn(done)

\* ----------------------------------------------------------------- Next
\* ---------------------------------------------------- job constructors
\* A call of NewMessage on a queued-message source.
BuildMessage ==
    /\ \E body \in Payloads, o \in Options :
         /\ message' = NewMessage([body |-> body], o)
         /\ built' = [by |-> "NewMessage", body |-> body, o |-> o]
    /\ UNCHANGED << chanVars, onceVars, queueVars, workerVars, guardVars, histVars >>

\* A call of NewTask on a callable.
BuildTask ==
    /\ \E task \in Tasks, o \in Options :
         /\ message' = NewTask(task, o)
         /\ built' = [by |-> "NewTask", task |-> task, o |-> o]
    /\ UNCHANGED << chanVars, onceVars, queueVars, workerVars, guardVars, histVars >>

QueueStep(p)    == QueueCheck(p) \/ QueueSend(p)
ShutdownStep(s) == OnceLock(s) \/ CloseStop(s) \/ CloseTaskQueue(s)
TaskStep        == (\E e \in {"nil", "err"} : TaskReturn(e)) \/ TaskPanic
WorkerStep      == RunRecv \/ RunExit \/ HandleStart
                   \/ SelectPanic \/ SelectCtxDone \/ SelectStop
                   \/ SelectDone \/ WaitDone

Next ==
    \/ \E p \in Producers : QueueCall(p)
    \/ \E p \in Producers : QueueStep(p)
    \/ \E s \in Stoppers : ShutdownCall(s)
    \/ \E s \in Stoppers : ShutdownStep(s)
    \/ RunCheck
    \/ WorkerStep
    \/ TaskStep
    \/ DeadlineExpire

Spec == Init /\ [][Next]_vars

\* The constructors of job.go alone, on a worker that is left as built.
JobNext == BuildMessage \/ BuildTask

JobSpec == Init /\ [][JobNext]_vars

\* A step of a goroutine that the scheduler has to run: the Run loop, the
\* task goroutine, a Shutdown call past its entry.
GoroutineStep == WorkerStep \/ TaskStep \/ (\E s \in Stoppers : ShutdownStep(s))

\* Go's scheduler does not stop while a goroutine can take a step, and a
\* task goroutine that was launched finishes (returns or faults).  Whether
\* and when Queue, Shutdown and Run are called is left to the environment,
\* and so is the progress of the producers.  Every goroutine takes
\* finitely many steps here, so this is as strong as fairness for each.
FairSpec == Spec /\ WF_vars(GoroutineStep)

\* ================================================================ claims
\* Producer p leaves Queue in this step (by a return or by a panic).
QueueEnds(p) == qpc[p] \in {"check", "send"} /\ qpc'[p] \in {"idle", "panicked"}

\* Queue calls that have ended.
Completed == calls - Cardinality({ p \in Producers : qpc[p] \in {"check", "send"} })

Min(a, b) == IF a <= b THEN a ELSE b

\* C1: every Queue call that ends after the close transition of Shutdown
\* (both channels closed) ends by returning ErrQueueShutdown, without a
\* fault and without touching the mailbox, also a call that had already
\* passed its check of the stop signal.
C1_PendingQueueFailsWithShutdown ==
    [][\A p \in Producers :
          (tqClosed /\ QueueEnds(p)) =>
              /\ qret' = Returned(p, "ErrQueueShutdown")
              /\ taskQueue' = taskQueue
              /\ accepted' = accepted]_vars

\* C2: a Queue call that begins after a Shutdown call has returned ends
\* by returning ErrQueueShutdown whatever the occupancy of the mailbox:
\* it never goes on to the send, never returns nil or errMaxCapacity and
\* leaves the mailbox alone.
C2_QueueAfterShutdownFails ==
    [][\A p \in Producers :
          (p \in lateCall /\ qpc[p] \in {"check", "send"} /\ qpc'[p] # qpc[p]) =>
              /\ qpc'[p] = "idle"
              /\ qret' = Returned(p, "ErrQueueShutdown")
              /\ taskQueue' = taskQueue
              /\ accepted' = accepted]_vars

\* C2 witness: a call begun after Shutdown returned was refused although
\* the mailbox had a free slot.
C2_Witness ==
    /\ qret.late
    /\ qret.val = "ErrQueueShutdown"
    /\ Usage < Capacity

\* C3 as stated: a Queue call whose send runs while shutdown has not been
\* initiated and the mailbox holds Capacity() envelopes returns
\* errMaxCapacity, and Queue is never waiting.
C3_FullMailboxRejects ==
    /\ [][\A p \in Producers :
            (qpc[p] = "send" /\ ~stop /\ Usage = Capacity /\ QueueEnds(p)) =>
                /\ qret' = Returned(p, "errMaxCapacity")
                /\ taskQueue' = taskQueue]_vars
    /\ [](\A p \in Producers :
            qpc[p] \in {"check", "send"} => ENABLED QueueStep(p))

\* C3 amended: with a capacity of at least 1 a full mailbox makes the send
\* return errMaxCapacity; with capacity 0 the call returns errMaxCapacity
\* unless the Run loop is waiting in its receive, and then it returns
\* errMaxCapacity or nil with the envelope handed to the loop; in no case
\* does Queue wait.
C3_FullBufferRejects ==
    /\ [][\A p \in Producers :
            (qpc[p] = "send" /\ ~stop /\ Usage = Capacity /\ QueueEnds(p)) =>
                /\ taskQueue' = taskQueue
                /\ \/ qret' = Returned(p, "errMaxCapacity") /\ accepted' = accepted
                   \/ /\ Capacity = 0
                      /\ ReceiverWaiting
                      /\ qret' = Returned(p, "nil")
                      /\ cur' = accepted'
                      /\ wpc' = "handle"]_vars
    /\ [](\A p \in Producers :
            qpc[p] \in {"check", "send"} => ENABLED QueueStep(p))

\* C3 witness: a call was refused with errMaxCapacity on a full buffer of
\* capacity >= 1 before any shutdown.
C3_Witness ==
    /\ qret.val = "errMaxCapacity"
    /\ Capacity >= 1
    /\ Usage = Capacity
    /\ ~stop

\* C4: a Queue call whose send runs while shutdown has not been initiated
\* and Usage() < Capacity() returns nil and puts the envelope at the tail
\* of the mailbox; and while nothing has been dequeued and shutdown has not
\* been initiated, of the calls that have ended exactly the first
\* Capacity() succeeded and the later ones returned errMaxCapacity.
C4_FreeSlotAccepts ==
    /\ [][\A p \in Producers :
            (qpc[p] = "send" /\ ~stop /\ Usage < Capacity /\ QueueEnds(p)) =>
                /\ qret' = Returned(p, "nil")
                /\ accepted' = accepted + 1
                /\ taskQueue' = Append(taskQueue, accepted')]_vars
    /\ []((~stop /\ started = << >> /\ cur = NoJob) =>
            /\ accepted = Min(Completed, Capacity)
            /\ taskQueue = [i \in 1..accepted |-> i]
            /\ (Completed > Capacity => qret.val = "errMaxCapacity")
            /\ (Completed \in 1..Capacity => qret.val = "nil"))

\* C4 witness: capacity 2, three calls ended, two envelopes buffered in
\* order and the third call refused.
C4_Witness ==
    /\ Capacity = 2
    /\ Completed = 3
    /\ taskQueue = << 1, 2 >>
    /\ qret.val = "errMaxCapacity"
    /\ ~stop
    /\ started = << >>

\* C5: whatever the number of Shutdown calls, and however they overlap,
\* each channel is closed at most once, no call panics on a double close,
\* and a call that has returned (its result is always nil) finds both
\* channels closed exactly once.
C5_ShutdownIdempotent ==
    /\ stopCloses <= 1
    /\ tqCloses <= 1
    /\ stop = (stopCloses = 1)
    /\ tqClosed = (tqCloses = 1)
    /\ \A s \in Stoppers :
          /\ spc[s] # "panicked"
          /\ spc[s] = "returned" => (stopCloses = 1 /\ tqCloses = 1)

\* C5 witness: every caller of Shutdown has returned and each channel was
\* closed once.
C5_Witness ==
    /\ \A s \in Stoppers : spc[s] = "returned"
    /\ stopCloses = 1
    /\ tqCloses = 1

\* The Run loop is inside handle, between the launch of the task goroutine
\* and the end of handle.
InGuard == wpc \in {"select", "waitDone"}

\* The Run loop has been entered and has not ended.
RunLooping == wpc \in {"range", "handle", "select", "waitDone"}

\* The envelope whose task was launched last.
LastStarted == IF started = << >> THEN NoJob ELSE started[Len(started)]

\* C6: once the task goroutine has faulted, whatever the moment (before
\* the deadline, after it, after the shutdown signal), the fault comes out
\* of Run, which ends with it, and no further envelope is processed.
C6_FaultPropagates ==
    /\ (unit = "panicked") ~> (runResult = "panic")
    /\ [][unit = "panicked" => (started' = started /\ cur' = cur)]_vars

\* C7 as stated: when close(s.stop) ran while an envelope was
\* mid-execution, Run ends only once that envelope's handle is over, and
\* the loop takes no other envelope afterwards, buffered or not.
C7_NoDequeueAfterShutdown ==
    /\ wpc = "returned" => (cur = NoJob /\ unit = "none")
    /\ midAtStop # NoJob => (cur \in {NoJob, midAtStop} /\ LastStarted = midAtStop)

\* C7 amended: Run ends only once the handle in progress is over and its
\* task goroutine has finished; after the shutdown the loop still takes the
\* envelopes that are buffered, oldest first, and Run does not return
\* while one is left; once the mailbox is closed nothing enters it, so
\* those are the only envelopes taken.
C7_DequeuesOnlyBufferedAfterShutdown ==
    /\ [](wpc = "returned" => (cur = NoJob /\ unit = "none"))
    /\ [](runResult = "nil" => (tqClosed /\ taskQueue = << >>))
    /\ [][tqClosed =>
            \/ taskQueue' = taskQueue /\ cur' \in {cur, NoJob}
            \/ /\ taskQueue # << >>
               /\ taskQueue' = Tail(taskQueue)
               /\ cur = NoJob
               /\ cur' = Head(taskQueue)]_vars

\* C7 witness: shutdown came while an envelope was mid-execution, a later
\* envelope was taken and launched after it, and Run has returned nil.
C7_Witness ==
    /\ midAtStop # NoJob
    /\ \E i \in 1..Len(started) : started[i] = midAtStop /\ i < Len(started)
    /\ runResult = "nil"

\* C8: while Run is in its loop no accepted envelope is lost: it is in the
\* buffer, in handle or already launched, so the envelopes buffered when
\* close(s.stop) runs stay there until the range takes them; handle
\* launches the envelope it was given; Run returns nil only with the
\* buffer drained and every accepted envelope launched; and when every
\* task goroutine returns, Run eventually returns nil after the shutdown.
C8_DrainsThenReturnsNil ==
    /\ [](RunLooping =>
            \A i \in 1..accepted :
                i \in Range(taskQueue) \/ i = cur \/ i \in Range(started))
    /\ [][(stop /\ RunLooping) =>
            \A i \in Range(taskQueue) :
                i \in Range(taskQueue') \/ (cur' = i /\ wpc' = "handle")]_vars
    /\ [][(wpc = "handle" /\ wpc' # "handle") =>
            (started' = Append(started, cur) /\ cur # NoJob)]_vars
    /\ [](runResult = "nil" =>
            /\ tqClosed
            /\ taskQueue = << >>
            /\ cur = NoJob
            /\ Range(started) = 1..accepted)
    /\ (stop /\ RunLooping) ~> (runResult = "nil" \/ unit = "panicked")

\* C8 witness: the shutdown came while envelope 1 was mid-execution; the
\* loop took envelopes 2 and 3 from the buffer afterwards and launched
\* them, and Run returned nil.
C8_Witness ==
    /\ midAtStop = 1
    /\ accepted = 3
    /\ started = << 1, 2, 3 >>
    /\ runResult = "nil"

\* The select of handle is evaluated with the deadline expired and the task
\* goroutine still running.
ExpiredWhileRunning ==
    wpc = "select" /\ ctxErr = "DeadlineExceeded" /\ unit = "running"

\* C9 as stated: when the deadline has expired with the task still running,
\* the guard logs the timeout notice and goes on waiting for the task.
C9_ExpiryAlwaysLogged ==
    [][(ExpiredWhileRunning /\ wpc' # "select") =>
          (timeoutLogged' /\ wpc' = "waitDone")]_vars

\* C9 amended: when the select is evaluated with the deadline expired, the
\* task still running and no shutdown signalled, the timeout notice is
\* logged and handle waits; a handle waiting after the deadline branch has
\* logged it; on every branch handle returns only after the task goroutine
\* has delivered its result, which is the value returned, and the loop
\* takes no other envelope while the task goroutine is running.
C9_DeadlineBranchLogsAndWaits ==
    /\ [][(ExpiredWhileRunning /\ ~stop /\ wpc' # "select") =>
            (timeoutLogged' /\ wpc' = "waitDone" /\ cur' = cur)]_vars
    /\ []((wpc = "waitDone" /\ ctxErr = "DeadlineExceeded" /\ ~stop) => timeoutLogged)
    /\ [](unit = "running" => (InGuard /\ cur = LastStarted /\ cur # NoJob))
    /\ [][(InGuard /\ wpc' = "range") =>
            /\ unit = "returned"
            /\ done # "empty"
            /\ errorLogged' = (done = "err")]_vars
    /\ [][InGuard => (cur' \in {cur, NoJob} /\ started' = started)]_vars

\* C9 witness: the timeout notice was logged and handle is waiting for the
\* task, which is still running after its deadline.
C9_Witness ==
    /\ wpc = "waitDone"
    /\ ctxErr = "DeadlineExceeded"
    /\ timeoutLogged
    /\ unit = "running"

\* C10: when the task goroutine has returned an error, the end of handle
\* logs it and leaves Run in its loop with the buffered envelopes
\* untouched; Run never ends with an error, and an envelope buffered behind
\* the failing one is launched next (unless a later fault stops the loop).
C10_ErrorLoggedLoopContinues ==
    /\ [][(InGuard /\ done = "err" /\ wpc' # wpc /\ wpc' # "waitDone") =>
            /\ errorLogged'
            /\ wpc' = "range"
            /\ runResult' = "none"
            /\ taskQueue' = taskQueue]_vars
    /\ [](runResult \in {"none", "nil", "ErrQueueShutdown", "panic"})
    /\ (errorLogged /\ wpc = "range" /\ taskQueue # << >>) ~> InGuard

\* C10 witness: an error was logged for the envelope handled last and the
\* envelope behind it has been launched.
C10_Witness ==
    /\ errorLogged
    /\ InGuard
    /\ Len(started) >= 2
    /\ cur = LastStarted

\* C11: a Run call made when s.stop is already closed returns
\* ErrQueueShutdown at once, and neither then nor afterwards is an envelope
\* taken from the mailbox or a task launched, whatever is buffered.
C11_RunAfterShutdownDoesNothing ==
    /\ [][(wpc = "idle" /\ stop /\ wpc' # wpc) =>
            /\ wpc' = "returned"
            /\ runResult' = "ErrQueueShutdown"
            /\ taskQueue' = taskQueue
            /\ cur' = NoJob
            /\ started' = started]_vars
    /\ [](runResult = "ErrQueueShutdown" =>
            /\ wpc = "returned"
            /\ started = << >>
            /\ cur = NoJob
            /\ unit = "none")
    /\ [][runResult = "ErrQueueShutdown" =>
            /\ runResult' = runResult
            /\ \A i \in 1..Len(taskQueue) :
                 i <= Len(taskQueue') /\ taskQueue'[i] = taskQueue[i]]_vars

\* C11 witness: Run was called after the shutdown with two envelopes
\* buffered and has returned ErrQueueShutdown; both are still buffered.
C11_Witness ==
    /\ runResult = "ErrQueueShutdown"
    /\ tqClosed
    /\ taskQueue = << 1, 2 >>

\* The envelopes k, k+1, ..., k+n-1 in this order.
Consecutive(k, n) == [i \in 1..n |-> k + i - 1]

\* Envelopes that have left the mailbox: launched, or in the hands of the
\* loop.
Taken == Len(started) + (IF wpc = "handle" THEN 1 ELSE 0)

\* C12: envelopes being named by the order in which their sends succeeded,
\* the tasks are launched in exactly that order with none skipped: the
\* launched envelopes are 1, 2, ..., the one in the hands of the loop is the
\* next, and the buffer holds the following ones in order up to the last
\* accepted; an accepted envelope goes to the tail (or, unbuffered, to the
\* waiting loop) and the loop takes the oldest.
C12_FifoOrder ==
    /\ [](started = Consecutive(1, Len(started)))
    /\ [](wpc = "handle" => cur = Len(started) + 1)
    /\ [](InGuard => cur = Len(started))
    /\ [](RunLooping => taskQueue = Consecutive(Taken + 1, accepted - Taken))
    /\ [][started' # started =>
            started' = Append(started, Len(started) + 1)]_vars

\* C12 witness: three envelopes were accepted, the last Queue call
\* returned nil, and the three tasks were launched in the order of
\* acceptance, the third still running, before any shutdown.
C12_Witness ==
    /\ started = << 1, 2, 3 >>
    /\ ~stop
    /\ qret = [val |-> "nil", late |-> FALSE]
    /\ unit = "running"

\* C13: no envelope has its task launched twice, and a launched envelope
\* is one whose send succeeded; an accepted envelope is in one place only:
\* buffered once, in the hands of the loop, or launched.
C13_AtMostOnce ==
    /\ \A i, j \in 1..Len(started) : started[i] = started[j] => i = j
    /\ Range(started) \subseteq 1..accepted
    /\ cur # NoJob => cur \in 1..accepted
    /\ Range(taskQueue) \subseteq 1..accepted
    /\ \A i, j \in 1..Len(taskQueue) : taskQueue[i] = taskQueue[j] => i = j
    /\ Range(taskQueue) \cap Range(started) = {}
    /\ cur \notin Range(taskQueue)

\* C13 witness: after Queue calls, a Run and a Shutdown, one call was
\* refused, two envelopes were accepted and each was launched once.
C13_Witness ==
    /\ runResult = "nil"
    /\ calls = 3
    /\ accepted = 2
    /\ started = << 1, 2 >>
    /\ \A p \in Producers : qpc[p] = "idle"

\* C14: Capacity() is the bound configured at construction, num of
\* WithQueueNum(num) or defaultQueueSize = 4096 without the option, and no
\* operation changes it; Usage() is the number of envelopes accepted and
\* not yet taken by the loop, and 0 <= Usage() <= Capacity().
C14_CapacityAndUsage ==
    /\ [](Capacity = IF queueNum = NoQueueNum THEN 4096 ELSE queueNum)
    /\ [][Capacity' = Capacity /\ queueNum' = queueNum]_vars
    /\ [](Usage = accepted - Taken)
    /\ [](Usage = Cardinality(Range(taskQueue)))
    /\ [](0 <= Usage /\ Usage <= Capacity)

\* C14 witness: a worker configured with WithQueueNum(2) is full after
\* operations of all three kinds: Usage() = Capacity() = 2 with one
\* envelope already taken by the loop and the stop signal closed.
C14_Witness ==
    /\ queueNum = 2
    /\ Usage = 2
    /\ Capacity = 2
    /\ Len(started) = 1
    /\ stop

\* C14 witness of the default: a worker built without the option has
\* Capacity() = 4096 and every Queue call made was accepted.
C14_DefaultWitness ==
    /\ queueNum = NoQueueNum
    /\ Capacity = 4096
    /\ Usage = 3

\* C15: an envelope built by NewTask carries the given task and an empty
\* payload, one built by NewMessage carries the bytes of its source and a
\* nil task, and both carry the timeout, retryCount and retryDelay of the
\* resolved options.
C15_ConstructorsKeepEnvelopeShape ==
    /\ built.by = "NewTask" =>
         /\ message.Task = built.task
         /\ message.Payload = NoBytes
    /\ built.by = "NewMessage" =>
         /\ message.Payload = built.body
         /\ message.Task = NoTask
    /\ built.by # "none" =>
         /\ message.Timeout = built.o.timeout
         /\ message.RetryCount = built.o.retryCount
         /\ message.RetryDelay = built.o.retryDelay

\* C15 witness: NewMessage was called on a source of two bytes with a
\* timeout different from the retry delay and a retry count of one.
C15_Witness ==
    /\ built.by = "NewMessage"
    /\ built.body = << 1, 2 >>
    /\ built.o = [timeout |-> 2, retryCount |-> 1, retryDelay |-> 1]
    /\ message.Payload = << 1, 2 >>

\* C16: a step of handle from its select to the wait without a timeout
\* notice is the shutdown branch: it is taken only with s.stop closed, it
\* cancels the context (Canceled, unless the deadline had expired) and
\* leaves the task goroutine and the envelope alone; handle then returns to
\* the loop only from a task goroutine that has returned, with its result.
C16_StopBranchCancelsAndWaits ==
    /\ [][(wpc = "select" /\ wpc' = "waitDone" /\ ~timeoutLogged') =>
            /\ stop
            /\ ctxErr' = (IF ctxErr = "none" THEN "Canceled" ELSE ctxErr)
            /\ unit' = unit
            /\ cur' = cur
            /\ started' = started]_vars
    /\ [](wpc = "waitDone" => (ctxErr # "none" /\ cur = LastStarted))
    /\ [][(wpc = "waitDone" /\ wpc' # "waitDone") =>
            /\ unit = "returned"
            /\ done # "empty"
            /\ wpc' = "range"
            /\ errorLogged' = (done = "err")]_vars
    /\ []((wpc = "waitDone" /\ unit = "running") => ~ENABLED WaitDone)

\* C16 witness: handle took the shutdown branch before the deadline: the
\* context is cancelled and handle waits for the task, which still runs.
C16_Witness ==
    /\ wpc = "waitDone"
    /\ stop
    /\ ctxErr = "Canceled"
    /\ unit = "running"

\* C17: Run leaves its loop only by the fault re-raised from handle, the
\* task goroutine having faulted, or by returning nil with s.stop and
\* s.taskQueue closed and the buffer empty; while s.stop is open it does
\* not return, and at its receive with an empty open channel it can take
\* no step.
C17_RunEndsByFaultOrDrain ==
    /\ [][(RunLooping /\ ~RunLooping') =>
            \/ /\ wpc' = "panicked"
               /\ runResult' = "panic"
               /\ unit = "panicked"
            \/ /\ wpc' = "returned"
               /\ runResult' = "nil"
               /\ stop
               /\ tqClosed
               /\ taskQueue = << >>
               /\ taskQueue' = << >>
               /\ unit = "none"]_vars
    /\ [][(RunLooping /\ ~stop) => wpc' # "returned"]_vars
    /\ [](runResult = "nil" => (stop /\ tqClosed /\ taskQueue = << >>))
    /\ []((wpc = "range" /\ taskQueue = << >> /\ ~tqClosed) => ~ENABLED WorkerStep)

\* C17 witness: Run went on after logging an application error and
\* returned nil only after the shutdown, with the mailbox drained.
C17_Witness ==
    /\ runResult = "nil"
    /\ errorLogged
    /\ started = << 1 >>
    /\ accepted = 1

\* C18: while the task goroutine runs, whichever branch handle took, its
\* send on done and its send on panicChan can both complete at once; so a
\* task goroutine that was launched finishes, and it runs only inside its
\* own handle.
C18_TaskUnitNeverBlocked ==
    /\ [](unit = "running" =>
            /\ InGuard
            /\ DoneHasRoom
            /\ PanicChanHasRoom
            /\ ENABLED TaskPanic
            /\ \A e \in {"nil", "err"} : ENABLED TaskReturn(e))
    /\ (unit = "running") ~> (unit \in {"returned", "panicked"})

\* C18 witness: the task faulted after handle had taken the shutdown
\* branch: the fault sits in the buffer of panicChan, which handle no
\* longer reads, and the task goroutine has ended.
C18_Witness ==
    /\ wpc = "waitDone"
    /\ ctxErr = "Canceled"
    /\ unit = "panicked"
    /\ panicChan

\* C19: a task goroutine runs only inside the handle of its own envelope,
\* the one launched last, and handle launches a task only when none is
\* left from an earlier envelope: when Run is at its receive or has been
\* given the next envelope, the task goroutine of every earlier envelope
\* has finished and its handle is over.
C19_OneTaskUnitAtATime ==
    /\ [](unit = "running" => (InGuard /\ cur = LastStarted))
    /\ [](wpc \in {"idle", "range", "handle", "returned"} => unit = "none")
    /\ [][started' # started =>
            /\ unit = "none"
            /\ unit' = "running"
            /\ wpc = "handle"
            /\ started' = Append(started, cur)]_vars
    /\ [][(unit # "none" /\ unit' = "none") =>
            (unit = "returned" /\ wpc' = "range")]_vars

\* C19 witness: the shutdown came while envelope 1 was mid-execution, its
\* handle is over, and the task of envelope 2 is the one running, past its
\* own deadline.
C19_Witness ==
    /\ midAtStop = 1
    /\ started = << 1, 2 >>
    /\ cur = 2
    /\ unit = "running"
    /\ ctxErr = "DeadlineExceeded"

\* Producer p's Queue call returns an error value in this step.
QueueFails(p) ==
    /\ qpc[p] \in {"check", "send"}
    /\ qpc'[p] = "idle"
    /\ qret'.val \in {"errMaxCapacity", "ErrQueueShutdown"}

\* C20: the step in which a Queue call returns errMaxCapacity or
\* ErrQueueShutdown changes nothing of the mailbox: the buffered envelopes
\* and their order, Usage(), Capacity(), the stop signal and the closed
\* state are the same, nothing was accepted and the loop was handed
\* nothing; and no earlier step of a call changes the mailbox, the only
\* step of Queue that does being the send that returns nil.
C20_FailedQueueLeavesMailbox ==
    /\ [][\A p \in Producers :
            QueueFails(p) =>
                /\ taskQueue' = taskQueue
                /\ Usage' = Usage
                /\ Capacity' = Capacity
                /\ stop' = stop
                /\ tqClosed' = tqClosed
                /\ accepted' = accepted
                /\ cur' = cur
                /\ wpc' = wpc]_vars
    /\ [][(\E p \in Producers : qpc'[p] # qpc[p]) =>
            \/ UNCHANGED << taskQueue, stop, tqClosed, accepted, cur >>
            \/ /\ qret'.val = "nil"
               /\ accepted' = accepted + 1
               /\ stop' = stop
               /\ tqClosed' = tqClosed]_vars

\* C20 witness: a call was refused with errMaxCapacity while envelope 2
\* filled the only slot and envelope 1 was being handled; envelope 2 is
\* still there.
C20_Witness ==
    /\ qret.val = "errMaxCapacity"
    /\ Capacity = 1
    /\ taskQueue = << 2 >>
    /\ cur = 1
    /\ calls = 3
    /\ \A p \in Producers : qpc[p] = "idle"

====
